---- MODULE Spec2Model ----
(***************************************************************************)
(* Proxy rotation with retry around the external transcript operations.   *)
(*                                                                         *)
(*   src/src/main.py           SimpleProxyManager, get_transcript,         *)
(*                             list_transcripts, the proxy_manager         *)
(*                             singleton                                   *)
(*   src/src/proxy_manager.py  ProxyManager (FreeProxy based)              *)
(*                                                                         *)
(* Text (error descriptions, provider bodies, proxy addresses) is a        *)
(* sequence of tokens, so that the substring test, strip and split are     *)
(* computed and not assumed.                                               *)
(***************************************************************************)
EXTENDS Integers, Sequences, FiniteSets, TLC

\* ------------------------------------------------------------------ bounds
NumRequests == 2
MaxPool == 4

Requests == 1..NumRequests

\* ------------------------------------------------------- program constants
\* range(3) of both retry loops
MaxAttempts == 3
\* the literal of "attempt < 2"
LastRetryBound == 2
\* response.status_code == 200
StatusOK == 200
\* HTTPException(status_code=404, ...)
StatusNotFound == 404

\* --------------------------------------------------------------- text
IP == <<"I", "P">>

\* Python's "sub in s" on strings
Contains(s, sub) ==
    \E i \in 0..(Len(s) - Len(sub)) : SubSeq(s, i + 1, i + Len(sub)) = sub

Whitespace == {"CRLF", "LF", " "}

RECURSIVE LStrip(_)
LStrip(s) ==
    IF s # <<>> /\ Head(s) \in Whitespace THEN LStrip(Tail(s)) ELSE s

RECURSIVE RStrip(_)
RStrip(s) ==
    IF s # <<>> /\ s[Len(s)] \in Whitespace
    THEN RStrip(SubSeq(s, 1, Len(s) - 1))
    ELSE s

\* str.strip()
Strip(s) == RStrip(LStrip(s))

\* str.split(sep): the pieces between the occurrences of sep, empty pieces kept
RECURSIVE Split(_, _)
Split(s, sep) ==
    IF \E i \in 1..Len(s) : s[i] = sep
    THEN LET i == CHOOSE k \in 1..Len(s) :
                      s[k] = sep /\ \A j \in 1..(k - 1) : s[j] # sep
         IN  <<SubSeq(s, 1, i - 1)>> \o Split(SubSeq(s, i + 1, Len(s)), sep)
    ELSE <<s>>

\* ------------------------------------------------- proxy-list providers
\* the apis list of SimpleProxyManager.refresh_proxies
NumProviders == 2

BodyTwo == <<"h1", ":", "80", "CRLF", "h2", ":", "80", "CRLF">>
BodyJunk == <<"bad", "CRLF", "CRLF", "h2", ":", "80">>
Bodies == {BodyTwo, BodyJunk, <<>>}

\* one provider's answer to requests.get(api, timeout=5): an exception
\* (timeout, connection error) or a response with a status and a body
ProviderResponses ==
    {[raised |-> TRUE, status_code |-> 0, text |-> <<>>]}
    \cup {[raised |-> FALSE, status_code |-> 503, text |-> BodyTwo]}
    \cup {[raised |-> FALSE, status_code |-> StatusOK, text |-> b] : b \in Bodies}

\* what all providers answer during one refresh
ResponseSets == [1..NumProviders -> ProviderResponses]

\* f"http://{proxy}"
FormatProxy(proxy) == <<"http://">> \o proxy

\* the inner loop: the pool with the well-formed lines of proxy_list appended
RECURSIVE AppendProxies(_, _)
AppendProxies(ps, proxy_list) ==
    IF proxy_list = <<>> THEN ps
    ELSE LET proxy == Head(proxy_list)
         IN  AppendProxies(
                 IF proxy # <<>> /\ Contains(proxy, <<":">>)
                 THEN Append(ps, FormatProxy(proxy))
                 ELSE ps,
                 Tail(proxy_list))

\* one iteration of "for api in apis": an exception is caught and logged, a
\* non-200 answer is skipped
QueryProvider(ps, response) ==
    IF response.raised THEN ps
    ELSE IF response.status_code = StatusOK
         THEN AppendProxies(ps, Split(Strip(response.text), "CRLF"))
         ELSE ps

\* the loop over the providers with the try/except around the whole loop:
\* the first provider that raises ends the refresh
RECURSIVE QueryProviders_AbortOnFailure(_, _, _)
QueryProviders_AbortOnFailure(ps, responses, k) ==
    IF k > NumProviders \/ responses[k].raised THEN ps
    ELSE QueryProviders_AbortOnFailure(QueryProvider(ps, responses[k]),
                                       responses, k + 1)

RECURSIVE QueryProviders(_, _, _)
QueryProviders(ps, responses, k) ==
    IF k > NumProviders THEN ps
    ELSE QueryProviders(QueryProvider(ps, responses[k]), responses, k + 1)

\* SimpleProxyManager.refresh_proxies: self.proxies afterwards
refresh_proxies(ps, responses) == QueryProviders(ps, responses, 1)

\* "except Exception as e: logging.error(...)" around one provider's query
InnerExcept == TRUE
\* "except Exception as e: logging.error(...)" around the whole refresh
OuterExcept == TRUE

\* SimpleProxyManager.refresh_proxies: does an exception reach the caller
refresh_raises(responses) ==
    /\ \E k \in 1..NumProviders : responses[k].raised
    /\ ~InnerExcept
    /\ ~OuterExcept

\* the dictionary get_proxy returns, and None
ProxyDict(proxy) == [is_none |-> FALSE, http |-> proxy, https |-> proxy]
None == [is_none |-> TRUE, http |-> <<>>, https |-> <<>>]

\* the draw always taking the first element of the pool
Choose_First(a) ==
    IF a.proxies = <<>>
    THEN {[proxies |-> a.proxies, ret |-> None, nrefresh |-> a.nrefresh,
           raised |-> a.raised]}
    ELSE {[proxies |-> a.proxies, ret |-> ProxyDict(a.proxies[1]),
           nrefresh |-> a.nrefresh, raised |-> a.raised]}

\* the second half of get_proxy: None on an empty pool, else random.choice
Choose(a) ==
    IF a.proxies = <<>>
    THEN {[proxies |-> a.proxies, ret |-> None, nrefresh |-> a.nrefresh,
           raised |-> a.raised]}
    ELSE {[proxies |-> a.proxies, ret |-> ProxyDict(a.proxies[i]),
           nrefresh |-> a.nrefresh, raised |-> a.raised] :
              i \in 1..Len(a.proxies)}

\* get_proxy taking the candidate it returns out of the pool
get_proxy_RemoveDrawn(ps) ==
    LET afterRefresh ==
            IF ps = <<>>
            THEN {[proxies |-> refresh_proxies(ps, rs), nrefresh |-> 1,
                   raised |-> refresh_raises(rs)] : rs \in ResponseSets}
            ELSE {[proxies |-> ps, nrefresh |-> 0, raised |-> FALSE]}
    IN  UNION {{[g EXCEPT !.proxies =
                      SelectSeq(g.proxies, LAMBDA x : x # g.ret.http)] :
                    g \in Choose(a)} : a \in afterRefresh}

\* get_proxy refreshing on every call, not only on an empty pool
get_proxy_AlwaysRefresh(ps) ==
    UNION {Choose([proxies |-> refresh_proxies(ps, rs), nrefresh |-> 1,
                   raised |-> refresh_raises(rs)]) : rs \in ResponseSets}

\* SimpleProxyManager.get_proxy: every (pool afterwards, value returned,
\* number of refresh_proxies calls, exception raised) the call can produce
\* from pool ps
get_proxy(ps) ==
    LET afterRefresh ==
            IF ps = <<>>
            THEN {[proxies |-> refresh_proxies(ps, rs), nrefresh |-> 1,
                   raised |-> refresh_raises(rs)] : rs \in ResponseSets}
            ELSE {[proxies |-> ps, nrefresh |-> 0, raised |-> FALSE]}
    IN  UNION {Choose(a) : a \in afterRefresh}

\* ------------------------------------------- ProxyManager (proxy_manager.py)
FreeProxyLists ==
    {<<>>, <<<<"h1", ":", "80">>>>,
     <<<<"h1", ":", "80">>, <<"h2", ":", "80">>>>}

\* what FreeProxy(https=True, timeout=1).get_proxy_list() does: raises, or
\* returns a list of addresses
FreeProxyResponses ==
    {[raised |-> TRUE, proxy_list |-> <<>>]}
    \cup {[raised |-> FALSE, proxy_list |-> l] : l \in FreeProxyLists}

\* ProxyManager.refresh_proxies: self.proxies afterwards
fp_refresh_proxies(ps, fr) ==
    IF fr.raised THEN ps
    ELSE IF fr.proxy_list # <<>> THEN fr.proxy_list
    ELSE ps

\* "except Exception as e: logging.error(...)" of ProxyManager.refresh_proxies
FpExcept == TRUE

\* ProxyManager.refresh_proxies: does an exception reach the caller
fp_refresh_raises(fr) == fr.raised /\ ~FpExcept

\* ProxyManager.get_proxy
fp_get_proxy(ps) ==
    LET afterRefresh ==
            IF ps = <<>>
            THEN {[proxies |-> fp_refresh_proxies(ps, fr), nrefresh |-> 1,
                   raised |-> fp_refresh_raises(fr)] :
                      fr \in FreeProxyResponses}
            ELSE {[proxies |-> ps, nrefresh |-> 0, raised |-> FALSE]}
    IN  UNION {Choose(a) : a \in afterRefresh}

\* ------------------------------------------- the external transcript source
VideoIds == {"abc123", "xyz789"}
Languages == {"en", "de"}

Snippet == [text |-> "hi", start |-> 0, duration |-> 1]
\* what YouTubeTranscriptApi.get_transcript can return
FetchPayloads == {<<>>, <<Snippet>>}

TranscriptEn ==
    [language |-> "English", language_code |-> "en", is_generated |-> FALSE,
     is_translatable |-> TRUE,
     translation_languages |->
         <<[language |-> "German", language_code |-> "de", is_rtl |-> FALSE]>>]
\* what YouTubeTranscriptApi.list_transcripts can return
ListPayloads == {<<>>, <<TranscriptEn>>}

ErrorClasses == {"TranscriptsDisabled", "NoTranscriptFound", "Exception"}
ErrorTexts ==
    { <<"Y", "o", "u", "r", " ", "I", "P">>,
      <<"y", "o", "u", "r", " ", "i", "p">>,
      <<"I", " ", "P">>,
      <<"I", "P", " ", "b", "a", "n">> }

\* one external call's outcome: a payload, or an exception of a class with
\* the text str(e)
Success(payload) ==
    [ok |-> TRUE, payload |-> payload, cls |-> "none", text |-> <<>>]
Failure(cls, text) ==
    [ok |-> FALSE, payload |-> <<>>, cls |-> cls, text |-> text]
Failures == {Failure(c, t) : c \in ErrorClasses, t \in ErrorTexts}
FetchOutcomes == {Success(p) : p \in FetchPayloads} \cup Failures
ListOutcomes == {Success(p) : p \in ListPayloads} \cup Failures

\* str(e)
str(e) == e.text

\* the except clause naming only TranscriptsDisabled
IsNotFound_OnlyDisabled(e) == e.cls = "TranscriptsDisabled"

\* except (TranscriptsDisabled, NoTranscriptFound)
IsNotFound(e) == e.cls \in {"TranscriptsDisabled", "NoTranscriptFound"}

\* the retry test without the test of the attempt index
FetchRetryable_NoIndexTest(e, att) == Contains(str(e), IP)

\* the retry test with the bound off by one
FetchRetryable_OneRetry(e, att) ==
    Contains(str(e), IP) /\ att < LastRetryBound - 1

\* "IP" in str(e) and attempt < 2, in get_transcript
FetchRetryable(e, att) == Contains(str(e), IP) /\ att < LastRetryBound

\* the retry test of list_transcripts without the test of the attempt index
ListRetryable_NoIndexTest(e, att) == Contains(str(e), IP)

\* "IP" in str(e) and attempt < 2, in list_transcripts
ListRetryable(e, att) == Contains(str(e), IP) /\ att < LastRetryBound

\* the try/except of get_transcript's loop body: what one outcome leads to
get_transcript_decide(o, att) ==
    IF o.ok THEN "return"
    ELSE IF IsNotFound(o) THEN "raise"
    ELSE IF FetchRetryable(o, att) THEN "continue"
    ELSE "raise"

\* list_transcripts with get_transcript's not-found clause copied in
list_transcripts_decide_NotFoundClause(o, att) ==
    IF o.ok THEN "return"
    ELSE IF IsNotFound(o) THEN "raise"
    ELSE IF ListRetryable(o, att) THEN "continue"
    ELSE "raise"

\* the try/except of list_transcripts' loop body
list_transcripts_decide(o, att) ==
    IF o.ok THEN "return"
    ELSE IF ListRetryable(o, att) THEN "continue"
    ELSE "raise"

\* ------------------------------------------------------------- responses
NoResponse ==
    [kind |-> "none", status |-> 0, body |-> <<>>, detail |-> <<>>]

\* the dictionary with the default language in place of the parameter
TranscriptResponse_DefaultLanguage(vid, lang, transcript_list) ==
    [kind |-> "ok", status |-> StatusOK,
     body |-> <<[video_id |-> vid, language |-> "en",
                 transcript |-> transcript_list]>>,
     detail |-> <<>>]

\* the dictionary get_transcript returns
TranscriptResponse(vid, lang, transcript_list) ==
    [kind |-> "ok", status |-> StatusOK,
     body |-> <<[video_id |-> vid, language |-> lang,
                 transcript |-> transcript_list]>>,
     detail |-> <<>>]

\* one entry of available_transcripts
TranscriptMetadata(t) ==
    [language |-> t.language, language_code |-> t.language_code,
     is_generated |-> t.is_generated, is_translatable |-> t.is_translatable,
     translation_languages |->
         [i \in 1..Len(t.translation_languages) |->
             [language |-> t.translation_languages[i].language,
              language_code |-> t.translation_languages[i].language_code]]]

\* the list list_transcripts returns
ListResponse(transcript_list) ==
    [kind |-> "ok", status |-> StatusOK,
     body |-> [i \in 1..Len(transcript_list) |->
                  TranscriptMetadata(transcript_list[i])],
     detail |-> <<>>]

\* a 404 with a fixed message in place of the error's description
HTTPException_FixedDetail(e) ==
    [kind |-> "http404", status |-> StatusNotFound, body |-> <<>>,
     detail |-> <<"n", "o", "t", " ", "f", "o", "u", "n", "d">>]

\* raise HTTPException(status_code=404, detail=str(e))
HTTPException(e) ==
    [kind |-> "http404", status |-> StatusNotFound, body |-> <<>>,
     detail |-> str(e)]

\* the for loop ended without return or raise: the handler returns None
FellThrough ==
    [kind |-> "fell_through", status |-> StatusOK, body |-> <<>>,
     detail |-> <<>>]

\* ------------------------------------------------------------------ state
VARIABLES
    pm_proxies,   \* proxy_manager.proxies, the pool of the process-wide singleton
    running,      \* the request whose handler the event loop is running, 0 if none
    pc,           \* per request: "idle", "pending", "call", "done"
    handler,      \* per request: "get_transcript", "list_transcripts", "none"
    video_id,     \* per request: the path parameter
    language,     \* per request: the query parameter
    attempt,      \* per request: the loop variable
    proxies,      \* per request: the handler's local variable proxies
    drawn,        \* per request: the values proxy_manager.get_proxy() returned
    used,         \* per request: the proxies= argument of each external call
    outcomes,     \* per request: the outcome of each external call
    response,     \* per request: what the handler returned or raised
    fp_proxies,   \* self.proxies of a ProxyManager instance
    mgr_log,      \* the last two calls made directly on the two managers
    refresh_k     \* per request: the provider its refresh is querying, 0 if none

appVars == <<running, pc, handler, video_id, language, attempt, proxies,
             drawn, used, outcomes, response>>
mgrVars == <<fp_proxies, mgr_log, refresh_k>>
vars == <<pm_proxies, running, pc, handler, video_id, language, attempt,
          proxies, drawn, used, outcomes, response, fp_proxies, mgr_log,
          refresh_k>>

\* proxy_manager = SimpleProxyManager(): the constructor refreshes once
InitPool == {refresh_proxies(<<>>, rs) : rs \in ResponseSets}

InitApp ==
    /\ running = 0
    /\ pc = [r \in Requests |-> "idle"]
    /\ handler = [r \in Requests |-> "none"]
    /\ video_id = [r \in Requests |-> ""]
    /\ language = [r \in Requests |-> ""]
    /\ attempt = [r \in Requests |-> 0]
    /\ proxies = [r \in Requests |-> None]
    /\ drawn = [r \in Requests |-> <<>>]
    /\ used = [r \in Requests |-> <<>>]
    /\ outcomes = [r \in Requests |-> <<>>]
    /\ response = [r \in Requests |-> NoResponse]

\* the application: main.py never constructs a ProxyManager
Init ==
    /\ pm_proxies \in InitPool
    /\ InitApp
    /\ fp_proxies = <<>>
    /\ mgr_log = <<>>
    /\ refresh_k = [r \in Requests |-> 0]

\* a request reaches the server and waits for the event loop
Arrive(r) ==
    /\ pc[r] = "idle"
    /\ pc' = [pc EXCEPT ![r] = "pending"]
    /\ UNCHANGED <<pm_proxies, running, handler, video_id, language, attempt,
                   proxies, drawn, used, outcomes, response>>
    /\ UNCHANGED mgrVars

\* handlers declared "def": each runs in a worker thread, none waits
LoopFree_Threaded == TRUE

\* handlers are "async def" and never await: the event loop takes up a
\* handler only when it is running none
LoopFree == running = 0

\* the handler starts: the first draw (before the loop) and attempt 0
Enter(r, h, vid, lang) ==
    /\ pc[r] = "pending"
    /\ LoopFree
    /\ \E g \in get_proxy(pm_proxies) :
          /\ pm_proxies' = g.proxies
          /\ proxies' = [proxies EXCEPT ![r] = g.ret]
          /\ drawn' = [drawn EXCEPT ![r] = <<g.ret>>]
    /\ running' = r
    /\ pc' = [pc EXCEPT ![r] = "call"]
    /\ handler' = [handler EXCEPT ![r] = h]
    /\ video_id' = [video_id EXCEPT ![r] = vid]
    /\ language' = [language EXCEPT ![r] = lang]
    /\ attempt' = [attempt EXCEPT ![r] = 0]
    /\ UNCHANGED <<used, outcomes, response>>
    /\ UNCHANGED mgrVars

\* GET /transcript/{video_id}?language=...
Start_get_transcript(r) ==
    \E vid \in VideoIds, lang \in Languages :
        Enter(r, "get_transcript", vid, lang)

\* GET /transcripts/{video_id}
Start_list_transcripts(r) ==
    \E vid \in VideoIds : Enter(r, "list_transcripts", vid, "")

\* one pass through the loop body: the external call with the current
\* proxies, then return, raise, or draw again and go to the next attempt
LoopBody(r, o, decision, ok_response) ==
    /\ used' = [used EXCEPT ![r] = Append(@, proxies[r])]
    /\ outcomes' = [outcomes EXCEPT ![r] = Append(@, o)]
    /\ IF decision = "return"
       THEN /\ response' = [response EXCEPT ![r] = ok_response]
            /\ pc' = [pc EXCEPT ![r] = "done"]
            /\ UNCHANGED <<pm_proxies, proxies, drawn, attempt>>
       ELSE IF decision = "raise"
       THEN /\ response' = [response EXCEPT ![r] = HTTPException(o)]
            /\ pc' = [pc EXCEPT ![r] = "done"]
            /\ UNCHANGED <<pm_proxies, proxies, drawn, attempt>>
       ELSE /\ \E g \in get_proxy(pm_proxies) :
                  /\ pm_proxies' = g.proxies
                  /\ proxies' = [proxies EXCEPT ![r] = g.ret]
                  /\ drawn' = [drawn EXCEPT ![r] = Append(@, g.ret)]
            /\ attempt' = [attempt EXCEPT ![r] = @ + 1]
            /\ IF attempt[r] + 1 < MaxAttempts
               THEN UNCHANGED <<pc, response>>
               ELSE /\ response' = [response EXCEPT ![r] = FellThrough]
                    /\ pc' = [pc EXCEPT ![r] = "done"]
    /\ UNCHANGED <<running, handler, video_id, language>>
    /\ UNCHANGED mgrVars

Call_get_transcript(r) ==
    /\ pc[r] = "call"
    /\ running = r
    /\ handler[r] = "get_transcript"
    /\ \E o \in FetchOutcomes :
          LoopBody(r, o, get_transcript_decide(o, attempt[r]),
                   TranscriptResponse(video_id[r], language[r], o.payload))

Call_list_transcripts(r) ==
    /\ pc[r] = "call"
    /\ running = r
    /\ handler[r] = "list_transcripts"
    /\ \E o \in ListOutcomes :
          LoopBody(r, o, list_transcripts_decide(o, attempt[r]),
                   ListResponse(o.payload))

\* the response is sent, the event loop is free for the next handler
Respond(r) ==
    /\ pc[r] = "done"
    /\ running = r
    /\ running' = 0
    /\ pc' = [pc EXCEPT ![r] = "idle"]
    /\ handler' = [handler EXCEPT ![r] = "none"]
    /\ video_id' = [video_id EXCEPT ![r] = ""]
    /\ language' = [language EXCEPT ![r] = ""]
    /\ attempt' = [attempt EXCEPT ![r] = 0]
    /\ proxies' = [proxies EXCEPT ![r] = None]
    /\ drawn' = [drawn EXCEPT ![r] = <<>>]
    /\ used' = [used EXCEPT ![r] = <<>>]
    /\ outcomes' = [outcomes EXCEPT ![r] = <<>>]
    /\ response' = [response EXCEPT ![r] = NoResponse]
    /\ UNCHANGED pm_proxies
    /\ UNCHANGED mgrVars

Next ==
    \/ \E r \in Requests : Arrive(r)
    \/ \E r \in Requests : Start_get_transcript(r)
    \/ \E r \in Requests : Start_list_transcripts(r)
    \/ \E r \in Requests : Call_get_transcript(r)
    \/ \E r \in Requests : Call_list_transcripts(r)
    \/ \E r \in Requests : Respond(r)

Spec == Init /\ [][Next]_vars

\* ------------------------------------- the two managers, called directly
\* ProxyManager(): the constructor refreshes once
InitFpPool == {fp_refresh_proxies(<<>>, fr) : fr \in FreeProxyResponses}

ManagerInit ==
    /\ pm_proxies \in InitPool
    /\ fp_proxies \in InitFpPool
    /\ mgr_log = <<>>
    /\ refresh_k = [r \in Requests |-> 0]
    /\ InitApp

LastTwo(log) == IF Len(log) > 2 THEN Tail(log) ELSE log

CallRecord(target, op, responses, before, after, ret, nrefresh, raised) ==
    [target |-> target, op |-> op, responses |-> responses, before |-> before, after |-> after,
     ret |-> ret, nrefresh |-> nrefresh, raised |-> raised]

\* proxy_manager.get_proxy()
Simple_get_proxy ==
    /\ \E g \in get_proxy(pm_proxies) :
          /\ pm_proxies' = g.proxies
          /\ mgr_log' = LastTwo(Append(mgr_log,
                 CallRecord("SimpleProxyManager", "get_proxy", <<>>, pm_proxies, g.proxies, g.ret,
                            g.nrefresh, g.raised)))
    /\ UNCHANGED <<fp_proxies, refresh_k>>
    /\ UNCHANGED appVars

\* proxy_manager.refresh_proxies()
Simple_refresh_proxies ==
    /\ \E rs \in ResponseSets :
          /\ Len(refresh_proxies(pm_proxies, rs)) <= MaxPool
          /\ pm_proxies' = refresh_proxies(pm_proxies, rs)
          /\ mgr_log' = LastTwo(Append(mgr_log,
                 CallRecord("SimpleProxyManager", "refresh_proxies", <<rs>>, pm_proxies,
                            refresh_proxies(pm_proxies, rs), None, 1,
                            refresh_raises(rs))))
    /\ UNCHANGED <<fp_proxies, refresh_k>>
    /\ UNCHANGED appVars

\* ProxyManager.get_proxy()
Fp_get_proxy ==
    /\ \E g \in fp_get_proxy(fp_proxies) :
          /\ fp_proxies' = g.proxies
          /\ mgr_log' = LastTwo(Append(mgr_log,
                 CallRecord("ProxyManager", "get_proxy", <<>>, fp_proxies, g.proxies, g.ret,
                            g.nrefresh, g.raised)))
    /\ UNCHANGED <<pm_proxies, refresh_k>>
    /\ UNCHANGED appVars

\* ProxyManager.refresh_proxies()
Fp_refresh_proxies ==
    /\ \E fr \in FreeProxyResponses :
          /\ fp_proxies' = fp_refresh_proxies(fp_proxies, fr)
          /\ mgr_log' = LastTwo(Append(mgr_log,
                 CallRecord("ProxyManager", "refresh_proxies", <<fr>>, fp_proxies,
                            fp_refresh_proxies(fp_proxies, fr), None, 1,
                            fp_refresh_raises(fr))))
    /\ UNCHANGED <<pm_proxies, refresh_k>>
    /\ UNCHANGED appVars

ManagerNext ==
    \/ Simple_get_proxy
    \/ Simple_refresh_proxies
    \/ Fp_get_proxy
    \/ Fp_refresh_proxies

ManagerSpec == ManagerInit /\ [][ManagerNext]_vars

\* ====================================================================
\* Properties of the retry loops (checked under Spec)
\* ====================================================================
GetRequests == {r \in Requests : handler[r] = "get_transcript"}
ListRequests == {r \in Requests : handler[r] = "list_transcripts"}

\* the error is of one of the two "video has no transcript" classes
NotFoundClass(o) ==
    ~o.ok /\ o.cls \in {"TranscriptsDisabled", "NoTranscriptFound"}
\* the error text contains the substring "IP"
HasIP(o) == ~o.ok /\ Contains(o.text, <<"I", "P">>)
\* an IP-block failure as get_transcript sees it
IPBlock(o) == HasIP(o) /\ ~NotFoundClass(o)

\* C1: a request makes at most 3 external calls; while it is in the loop it
\* has made exactly as many calls as its attempt index, which is below 3, and
\* has no response yet; once it has left the loop it has exactly one outcome,
\* a success result or an HTTP 404 error.
C1_AtMostThreeCallsOneOutcome ==
    \A r \in Requests :
        /\ Len(outcomes[r]) <= 3
        /\ Len(used[r]) = Len(outcomes[r])
        /\ pc[r] = "call" =>
              /\ attempt[r] < 3
              /\ Len(outcomes[r]) = attempt[r]
              /\ response[r].kind = "none"
        /\ pc[r] = "done" =>
              /\ Len(outcomes[r]) >= 1
              /\ response[r].kind \in {"ok", "http404"}
              /\ response[r].kind = "ok" => response[r].status = 200
              /\ response[r].kind = "http404" => response[r].status = 404

\* a request that used all three calls and ended in a 404
C1_Witness ==
    \E r \in GetRequests :
        /\ pc[r] = "done"
        /\ Len(outcomes[r]) = 3
        /\ HasIP(outcomes[r][3])
        /\ response[r].kind = "http404"

\* C2: in get_transcript a transcripts-disabled or no-transcript-found error
\* on any attempt is the last external call: the request is done with a 404,
\* and no call and no draw follows it, also when the text contains "IP".
C2_NotFoundNeverRetried ==
    \A r \in GetRequests :
        \A i \in 1..Len(outcomes[r]) :
            NotFoundClass(outcomes[r][i]) =>
                /\ i = Len(outcomes[r])
                /\ pc[r] = "done"
                /\ response[r].kind = "http404"
                /\ response[r].status = 404
                /\ Len(used[r]) = i
                /\ Len(drawn[r]) = i

\* a not-found error whose text contains "IP", on the first attempt
C2_Witness ==
    \E r \in GetRequests :
        /\ Len(outcomes[r]) = 1
        /\ NotFoundClass(outcomes[r][1])
        /\ HasIP(outcomes[r][1])
        /\ pc[r] = "done"

\* C3: in get_transcript an error that is not a not-found error and contains
\* "IP", on attempt i < 2, is absorbed: a new candidate has been drawn from
\* the proxy source, attempt i+1 is the next thing the request does, with no
\* response produced, and the call of attempt i+1 uses the new candidate.
C3_BlockAbsorbedAndRetried ==
    \A r \in GetRequests :
        \A i \in 1..Len(outcomes[r]) :
            (IPBlock(outcomes[r][i]) /\ i - 1 < 2) =>
                /\ Len(drawn[r]) >= i + 1
                /\ \/ drawn[r][i + 1].is_none
                   \/ \E j \in 1..Len(pm_proxies) :
                          drawn[r][i + 1].http = pm_proxies[j]
                /\ i = Len(outcomes[r]) =>
                      /\ pc[r] = "call"
                      /\ response[r].kind = "none"
                      /\ attempt[r] = i
                      /\ proxies[r] = drawn[r][i + 1]
                /\ i < Len(outcomes[r]) => used[r][i + 1] = drawn[r][i + 1]

\* two absorbed IP-block failures, the third call already made
C3_Witness ==
    \E r \in GetRequests :
        /\ Len(outcomes[r]) = 3
        /\ IPBlock(outcomes[r][1])
        /\ IPBlock(outcomes[r][2])
        /\ ~drawn[r][3].is_none
        /\ drawn[r][3] # drawn[r][2]

\* C4: when get_transcript's external call fails k times (k in 0..2) with an
\* IP-block error and then succeeds with payload P, the request is done with
\* {video_id, language, transcript: P} for its own video id and language,
\* after exactly k+1 calls and k+1 draws; a success is always the last call.
C4_SuccessReturnedImmediately ==
    \A r \in GetRequests :
        \A i \in 1..Len(outcomes[r]) :
            outcomes[r][i].ok =>
                /\ i = Len(outcomes[r])
                /\ \A j \in 1..(i - 1) : IPBlock(outcomes[r][j])
                /\ pc[r] = "done"
                /\ response[r].kind = "ok"
                /\ response[r].body =
                       <<[video_id |-> video_id[r], language |-> language[r],
                          transcript |-> outcomes[r][i].payload]>>
                /\ Len(used[r]) = i
                /\ Len(drawn[r]) = i

\* two IP-block failures, then a success with a non-empty payload, for a
\* language other than the default
C4_Witness ==
    \E r \in GetRequests :
        /\ Len(outcomes[r]) = 3
        /\ outcomes[r][3].ok
        /\ outcomes[r][3].payload # <<>>
        /\ language[r] = "de"
        /\ response[r].kind = "ok"

\* C5: after exactly 2 IP-block failures and then a success, get_transcript
\* has returned the success result, made exactly 3 external calls, and the
\* candidates used for attempts 0, 1 and 2 are pairwise different.
C5_ThreeDistinctCandidates ==
    \A r \in GetRequests :
        ( /\ Len(outcomes[r]) = 3
          /\ IPBlock(outcomes[r][1])
          /\ IPBlock(outcomes[r][2])
          /\ outcomes[r][3].ok ) =>
            /\ response[r].kind = "ok"
            /\ Len(used[r]) = 3
            /\ used[r][1] # used[r][2]
            /\ used[r][1] # used[r][3]
            /\ used[r][2] # used[r][3]

\* an IP-block failure as the handler of request r sees it
Block(r, o) ==
    IF handler[r] = "get_transcript" THEN IPBlock(o) ELSE HasIP(o)

\* C6: after 3 consecutive IP-block failures get_transcript and
\* list_transcripts are done with an HTTP 404 after exactly 3 external calls:
\* after fewer such failures the next call is still to come, and there is
\* never a fourth call.
C6_ThreeBlocksThen404 ==
    \A r \in GetRequests \cup ListRequests :
        /\ Len(outcomes[r]) <= 3
        /\ \A n \in 1..Len(outcomes[r]) :
              (\A i \in 1..n : Block(r, outcomes[r][i])) =>
                  IF n = 3
                  THEN /\ pc[r] = "done"
                       /\ response[r].kind = "http404"
                       /\ response[r].status = 404
                       /\ Len(used[r]) = 3
                  ELSE n = Len(outcomes[r]) => pc[r] = "call"

\* list_transcripts after its third IP-block failure
C6_Witness ==
    \E r \in ListRequests :
        /\ Len(outcomes[r]) = 3
        /\ \A i \in 1..3 : Block(r, outcomes[r][i])
        /\ pc[r] = "done"

\* the request ended in an error
EndedInError(r) == pc[r] = "done" /\ response[r].kind # "ok"
LastOutcome(r) == outcomes[r][Len(outcomes[r])]

\* the 404 carries the description of the last call's error, and of no
\* absorbed error with another description
CarriesLastDescription(r) ==
    /\ response[r].kind = "http404"
    /\ ~LastOutcome(r).ok
    /\ response[r].detail = LastOutcome(r).text
    /\ \A i \in 1..(Len(outcomes[r]) - 1) :
           outcomes[r][i].text # LastOutcome(r).text =>
               response[r].detail # outcomes[r][i].text

\* C7 as stated: whenever a request ends in an error, the 404 carries the
\* description of the last external call's error, and that call is (a) one
\* whose error is not a not-found error and does not contain "IP", or (b)
\* the call at attempt index 2.
C7_Original ==
    \A r \in GetRequests \cup ListRequests :
        EndedInError(r) =>
            /\ CarriesLastDescription(r)
            /\ \/ ~NotFoundClass(LastOutcome(r)) /\ ~HasIP(LastOutcome(r))
               \/ Len(outcomes[r]) = 3

\* the error stops the loop of request r's handler at any attempt index
StopsImmediately(r, o) ==
    \/ ~NotFoundClass(o) /\ ~HasIP(o)
    \/ NotFoundClass(o) /\ (handler[r] = "get_transcript" \/ ~HasIP(o))

\* C7 as amended: whenever a request ends in an error, the 404 carries the
\* description of the last external call's error, and that call is (a) one
\* whose error is not a not-found error and does not contain "IP", (b) the
\* call at attempt index 2, or (c) one whose error is a not-found error, in
\* get_transcript whatever its text and in list_transcripts when its text
\* does not contain "IP"; (a) and (c) stop the loop at any attempt index.
C7_ErrorCarriesLastDescription ==
    \A r \in GetRequests \cup ListRequests :
        /\ EndedInError(r) =>
              /\ CarriesLastDescription(r)
              /\ \/ StopsImmediately(r, LastOutcome(r))
                 \/ Len(outcomes[r]) = 3
        /\ \A i \in 1..Len(outcomes[r]) :
              (~outcomes[r][i].ok /\ StopsImmediately(r, outcomes[r][i])) =>
                  i = Len(outcomes[r]) /\ EndedInError(r)

\* an absorbed IP-block failure, then a not-found error with another
\* description that ends the request on attempt 1
C7_Witness ==
    \E r \in GetRequests :
        /\ Len(outcomes[r]) = 2
        /\ IPBlock(outcomes[r][1])
        /\ NotFoundClass(outcomes[r][2])
        /\ outcomes[r][2].text # outcomes[r][1].text
        /\ EndedInError(r)

\* what the handler of request r did with the outcome of its i-th call
Observed(r, i) ==
    IF i < Len(outcomes[r]) \/ pc[r] = "call" THEN "continue"
    ELSE IF response[r].kind = "ok" THEN "return"
    ELSE IF response[r].kind = "http404" THEN "raise"
    ELSE "none"

\* C8: list_transcripts retries an error of any class, with a new draw, if
\* and only if its text contains "IP" and the attempt index is below 2, and
\* otherwise ends with a 404; on every outcome that is not a not-found error
\* it decides as get_transcript does, and it has drawn once per call made or
\* about to be made.
C8_ListHasNoNotFoundClass ==
    \A r \in ListRequests :
        /\ Len(drawn[r]) = Len(outcomes[r]) + (IF pc[r] = "call" THEN 1 ELSE 0)
        /\ Len(used[r]) = Len(outcomes[r])
        /\ \A i \in 1..Len(outcomes[r]) :
              LET o == outcomes[r][i]
              IN  /\ used[r][i] = drawn[r][i]
                  /\ ~o.ok =>
                        /\ Observed(r, i) = "continue"
                              <=> (HasIP(o) /\ i - 1 < 2)
                        /\ Observed(r, i) # "continue" =>
                              /\ Observed(r, i) = "raise"
                              /\ response[r].status = 404
                  /\ ~NotFoundClass(o) =>
                        Observed(r, i) = get_transcript_decide(o, i - 1)

\* list_transcripts retried a not-found error whose text contains "IP" and
\* then stopped on one that does not
C8_Witness ==
    \E r \in ListRequests :
        /\ Len(outcomes[r]) = 2
        /\ NotFoundClass(outcomes[r][1])
        /\ HasIP(outcomes[r][1])
        /\ NotFoundClass(outcomes[r][2])
        /\ ~HasIP(outcomes[r][2])
        /\ pc[r] = "done"

\* ====================================================================
\* Properties of the two proxy managers (checked under ManagerSpec)
\* ====================================================================
\* C9: get_proxy on an empty pool calls refresh exactly once before it
\* answers, and answers None without raising when the pool is still empty
\* afterwards; get_proxy on a non-empty pool calls no refresh and leaves the
\* pool as it was.
C9_RefreshOnceOnEmpty ==
    \A k \in 1..Len(mgr_log) :
        LET c == mgr_log[k]
        IN  c.op = "get_proxy" =>
                /\ ~c.raised
                /\ c.before = <<>> =>
                      /\ c.nrefresh = 1
                      /\ c.after = <<>> => c.ret.is_none
                      /\ c.after # <<>> => ~c.ret.is_none
                /\ c.before # <<>> =>
                      /\ c.nrefresh = 0
                      /\ c.after = c.before
                      /\ ~c.ret.is_none

\* on both managers: get_proxy on an empty pool whose refresh yields nothing
C9_Witness ==
    /\ Len(mgr_log) = 2
    /\ mgr_log[1].target = "SimpleProxyManager"
    /\ mgr_log[2].target = "ProxyManager"
    /\ \A i \in 1..2 :
          /\ mgr_log[i].op = "get_proxy"
          /\ mgr_log[i].before = <<>>
          /\ mgr_log[i].after = <<>>
          /\ mgr_log[i].ret.is_none

\* C10: two refresh calls in succession on one manager, with the same
\* provider responses, leave a pool of the same size both times, and the
\* second does not add its candidates to what the pool held before.
C10_RefreshTwiceSameSize ==
    ( /\ Len(mgr_log) = 2
      /\ mgr_log[1].op = "refresh_proxies"
      /\ mgr_log[2].op = "refresh_proxies"
      /\ mgr_log[1].target = mgr_log[2].target
      /\ mgr_log[1].responses = mgr_log[2].responses ) =>
        /\ Len(mgr_log[1].after) = Len(mgr_log[2].after)
        /\ ~ /\ mgr_log[2].before # <<>>
             /\ Len(mgr_log[2].after) > Len(mgr_log[2].before)
             /\ SubSeq(mgr_log[2].after, 1, Len(mgr_log[2].before))
                    = mgr_log[2].before

\* a provider of SimpleProxyManager failed: an exception or timeout, a status
\* other than 200, or a body with no entry
SimpleProviderFailed(answer) ==
    \/ answer.raised
    \/ answer.status_code # 200
    \/ answer.text = <<>>

\* FreeProxy failed: an exception, or an empty list
FreeProxyFailed(fr) == fr.raised \/ fr.proxy_list = <<>>

\* every provider failed during the refresh recorded in c
TotalFailure(c) ==
    IF c.target = "SimpleProxyManager"
    THEN \A k \in 1..2 : SimpleProviderFailed(c.responses[1][k])
    ELSE FreeProxyFailed(c.responses[1])

\* C11: refresh never raises to its caller, and after a refresh in which
\* every provider fails the pool is empty, whatever it held before.
C11_TotalFailureEmptiesPool ==
    \A k \in 1..Len(mgr_log) :
        LET c == mgr_log[k]
        IN  c.op = "refresh_proxies" =>
                /\ ~c.raised
                /\ TotalFailure(c) => c.after = <<>>

\* ====================================================================
\* Concurrent requests (checked under Spec)
\* ====================================================================
\* C12: while a request a is inside an external call, another request b that
\* has reached the server can start its handler (and so go on to make its
\* own external calls and complete).
C12_NoHeadOfLineBlocking ==
    \A a, b \in Requests :
        (a # b /\ pc[a] = "call" /\ pc[b] = "pending") =>
            ENABLED (Start_get_transcript(b) \/ Start_list_transcripts(b))

\* ====================================================================
\* The same application with get_proxy and refresh_proxies taken one
\* blocking call at a time (PoolSpec): pc is also "get_proxy" (the handler
\* is at its call of proxy_manager.get_proxy()) and "refresh" (inside the
\* "for api in apis" loop, before the query of provider refresh_k)
\* ====================================================================
\* the handler is entered; its first statement is the call of get_proxy
Begin(r, h, vid, lang) ==
    /\ pc[r] = "pending"
    /\ LoopFree
    /\ running' = r
    /\ pc' = [pc EXCEPT ![r] = "get_proxy"]
    /\ handler' = [handler EXCEPT ![r] = h]
    /\ video_id' = [video_id EXCEPT ![r] = vid]
    /\ language' = [language EXCEPT ![r] = lang]
    /\ attempt' = [attempt EXCEPT ![r] = 0]
    /\ UNCHANGED <<pm_proxies, proxies, drawn, used, outcomes, response>>
    /\ UNCHANGED mgrVars

Begin_get_transcript(r) ==
    \E vid \in VideoIds, lang \in Languages :
        Begin(r, "get_transcript", vid, lang)

Begin_list_transcripts(r) ==
    \E vid \in VideoIds : Begin(r, "list_transcripts", vid, "")

\* the end of get_proxy on pool ps, back in the handler: the value drawn
\* becomes proxies, and the loop goes on if the attempt index allows
Draw(r, ps) ==
    /\ \E g \in Choose([proxies |-> ps, nrefresh |-> 0, raised |-> FALSE]) :
          /\ proxies' = [proxies EXCEPT ![r] = g.ret]
          /\ drawn' = [drawn EXCEPT ![r] = Append(@, g.ret)]
    /\ IF attempt[r] < MaxAttempts
       THEN /\ pc' = [pc EXCEPT ![r] = "call"]
            /\ UNCHANGED response
       ELSE /\ pc' = [pc EXCEPT ![r] = "done"]
            /\ response' = [response EXCEPT ![r] = FellThrough]

\* get_proxy: "if not self.proxies" starts a refresh, else the draw
Step_get_proxy(r) ==
    /\ pc[r] = "get_proxy"
    /\ running = r
    /\ IF pm_proxies = <<>>
       THEN /\ pc' = [pc EXCEPT ![r] = "refresh"]
            /\ refresh_k' = [refresh_k EXCEPT ![r] = 1]
            /\ UNCHANGED <<proxies, drawn, response>>
       ELSE /\ Draw(r, pm_proxies)
            /\ UNCHANGED refresh_k
    /\ UNCHANGED <<pm_proxies, running, handler, video_id, language, attempt,
                   used, outcomes, fp_proxies, mgr_log>>

\* refresh_proxies: the query of one provider; after the last one get_proxy
\* goes on to the draw
Step_query_provider(r) ==
    /\ pc[r] = "refresh"
    /\ running = r
    /\ \E answer \in ProviderResponses :
          /\ pm_proxies' = QueryProvider(pm_proxies, answer)
          /\ IF refresh_k[r] < NumProviders
             THEN /\ refresh_k' = [refresh_k EXCEPT ![r] = @ + 1]
                  /\ UNCHANGED <<pc, proxies, drawn, response>>
             ELSE /\ refresh_k' = [refresh_k EXCEPT ![r] = 0]
                  /\ Draw(r, QueryProvider(pm_proxies, answer))
    /\ UNCHANGED <<running, handler, video_id, language, attempt, used,
                   outcomes, fp_proxies, mgr_log>>

\* one external call and its try/except; "continue" leads to get_proxy
Step_call(r, o, decision, ok_response) ==
    /\ used' = [used EXCEPT ![r] = Append(@, proxies[r])]
    /\ outcomes' = [outcomes EXCEPT ![r] = Append(@, o)]
    /\ IF decision = "return"
       THEN /\ response' = [response EXCEPT ![r] = ok_response]
            /\ pc' = [pc EXCEPT ![r] = "done"]
            /\ UNCHANGED attempt
       ELSE IF decision = "raise"
       THEN /\ response' = [response EXCEPT ![r] = HTTPException(o)]
            /\ pc' = [pc EXCEPT ![r] = "done"]
            /\ UNCHANGED attempt
       ELSE /\ pc' = [pc EXCEPT ![r] = "get_proxy"]
            /\ attempt' = [attempt EXCEPT ![r] = @ + 1]
            /\ UNCHANGED response
    /\ UNCHANGED <<pm_proxies, running, handler, video_id, language, proxies,
                   drawn>>
    /\ UNCHANGED mgrVars

Step_get_transcript(r) ==
    /\ pc[r] = "call"
    /\ running = r
    /\ handler[r] = "get_transcript"
    /\ \E o \in FetchOutcomes :
          Step_call(r, o, get_transcript_decide(o, attempt[r]),
                    TranscriptResponse(video_id[r], language[r], o.payload))

Step_list_transcripts(r) ==
    /\ pc[r] = "call"
    /\ running = r
    /\ handler[r] = "list_transcripts"
    /\ \E o \in ListOutcomes :
          Step_call(r, o, list_transcripts_decide(o, attempt[r]),
                    ListResponse(o.payload))

PoolNext ==
    \/ \E r \in Requests : Arrive(r)
    \/ \E r \in Requests : Begin_get_transcript(r)
    \/ \E r \in Requests : Begin_list_transcripts(r)
    \/ \E r \in Requests : Step_get_proxy(r)
    \/ \E r \in Requests : Step_query_provider(r)
    \/ \E r \in Requests : Step_get_transcript(r)
    \/ \E r \in Requests : Step_list_transcripts(r)
    \/ \E r \in Requests : Respond(r)

PoolSpec == Init /\ [][PoolNext]_vars

\* the addresses the providers' bodies hold, as the pool stores them
SuppliedAddresses ==
    { <<"http://", "h1", ":", "80">>, <<"http://", "h2", ":", "80">> }

\* another request is in the middle of a refresh
RefreshInProgressBeside(r) ==
    \E a \in Requests \ {r} : pc[a] = "refresh"

\* C13: under every interleaving of requests the pool holds only addresses
\* a provider supplied, every candidate get_proxy returned is such an
\* address, at most one request is refreshing, and no request draws while
\* another request's refresh is in progress.
C13_PoolNeverCorrupted ==
    /\ [](/\ \A j \in 1..Len(pm_proxies) : pm_proxies[j] \in SuppliedAddresses
          /\ \A r \in Requests : \A i \in 1..Len(drawn[r]) :
                \/ drawn[r][i].is_none
                \/ /\ drawn[r][i].http \in SuppliedAddresses
                   /\ drawn[r][i].https = drawn[r][i].http
          /\ \A a, b \in Requests :
                (pc[a] = "refresh" /\ pc[b] = "refresh") => a = b)
    /\ [][\A r \in Requests :
             Len(drawn'[r]) > Len(drawn[r]) => ~RefreshInProgressBeside(r)]_vars

\* a request has refreshed the pool half-way (the first provider answered,
\* the second is still to be queried) while another request waits to draw
C13_Witness ==
    \E a, b \in Requests :
        /\ a # b
        /\ pc[a] = "refresh"
        /\ refresh_k[a] = 2
        /\ pm_proxies # <<>>
        /\ pc[b] = "pending"

\* ====================================================================
\* Draws and the pool during requests (checked under Spec)
\* ====================================================================
\* C14: within a request every external call uses the candidate of the draw
\* with its own number (call i, counted from 0, uses draw i+1); while the
\* request is in the loop it has drawn exactly once more than it has called
\* and the last draw is what the next call will pass; once it is done it has
\* drawn exactly as often as it has called.
C14_OneDrawPerCall ==
    \A r \in GetRequests \cup ListRequests :
        /\ \A i \in 1..Len(used[r]) :
              i <= Len(drawn[r]) /\ used[r][i] = drawn[r][i]
        /\ pc[r] = "call" =>
              /\ Len(drawn[r]) = Len(used[r]) + 1
              /\ proxies[r] = drawn[r][Len(drawn[r])]
        /\ pc[r] = "done" => Len(drawn[r]) = Len(used[r])

\* three calls of list_transcripts, each with the candidate drawn for it,
\* the second draw differing from the first
C14_Witness ==
    \E r \in ListRequests :
        /\ pc[r] = "done"
        /\ Len(used[r]) = 3
        /\ Len(drawn[r]) = 3
        /\ ~drawn[r][1].is_none
        /\ drawn[r][2] # drawn[r][1]

\* ====================================================================
\* Draws and refreshes of the two managers (checked under ManagerSpec)
\* ====================================================================
\* the last call recorded returned the address p
LastReturned(p) ==
    /\ ~mgr_log'[Len(mgr_log')].ret.is_none
    /\ mgr_log'[Len(mgr_log')].ret.http = p

\* C15: get_proxy answers None exactly when the pool is empty after the
\* attempted refresh, and otherwise an element of the pool, the same for
\* 'http' and 'https'; and from a non-empty pool every element is a possible
\* answer, in both managers.
C15_DrawFromCurrentPool ==
    /\ \A k \in 1..Len(mgr_log) :
          LET c == mgr_log[k]
          IN  c.op = "get_proxy" =>
                  /\ c.ret.is_none <=> c.after = <<>>
                  /\ c.after # <<>> =>
                        /\ \E j \in 1..Len(c.after) : c.ret.http = c.after[j]
                        /\ c.ret.https = c.ret.http
    /\ \A j \in 1..Len(pm_proxies) :
          ENABLED (Simple_get_proxy /\ LastReturned(pm_proxies[j]))
    /\ \A j \in 1..Len(fp_proxies) :
          ENABLED (Fp_get_proxy /\ LastReturned(fp_proxies[j]))

\* get_proxy has answered the second of two different elements of the pool
C15_Witness ==
    \E k \in 1..Len(mgr_log) :
        LET c == mgr_log[k]
        IN  /\ c.op = "get_proxy"
            /\ Len(c.after) >= 2
            /\ c.after[2] # c.after[1]
            /\ c.ret.http = c.after[2]

\* the candidates a provider's answer holds: none unless it answered 200,
\* else "http://" + each line of the body that has a colon
Candidates(answer) ==
    IF answer.raised \/ answer.status_code # 200 THEN {}
    ELSE IF answer.text = BodyTwo
         THEN { <<"http://", "h1", ":", "80">>, <<"http://", "h2", ":", "80">> }
    ELSE IF answer.text = BodyJunk
         THEN { <<"http://", "h2", ":", "80">> }
    ELSE {}

PoolElements(ps) == {ps[j] : j \in 1..Len(ps)}

\* C16: after SimpleProxyManager.refresh_proxies the pool contains every
\* candidate of every provider that answered successfully, whether or not
\* another provider, before or after it, failed; what the pool held before
\* is still there and nothing else has been added.
C16_PartialFailureContinues ==
    \A k \in 1..Len(mgr_log) :
        LET c == mgr_log[k]
        IN  (c.op = "refresh_proxies" /\ c.target = "SimpleProxyManager") =>
                /\ \A n \in 1..2 :
                       Candidates(c.responses[1][n]) \subseteq PoolElements(c.after)
                /\ PoolElements(c.after) =
                       PoolElements(c.before)
                       \cup Candidates(c.responses[1][1])
                       \cup Candidates(c.responses[1][2])

\* the first provider raised, the second answered, and both of its
\* candidates are in a pool that was empty before
C16_Witness ==
    \E k \in 1..Len(mgr_log) :
        LET c == mgr_log[k]
        IN  /\ c.op = "refresh_proxies"
            /\ c.target = "SimpleProxyManager"
            /\ c.before = <<>>
            /\ c.responses[1][1].raised
            /\ ~c.responses[1][2].raised
            /\ Len(c.after) = 2

====
